---- MODULE Spec2Model ----
(***************************************************************************)
(* Marching Cubes extractor (src/src/MarchingCubes.cpp) as a state machine. *)
(*                                                                         *)
(* Numbers.  Samples, isovalues and corner values are fixed-point numbers: *)
(* the integer v stands for v / SCALE.  The machine epsilon of the sample  *)
(* type is EPS units, so a corner value v is "within epsilon of zero" iff  *)
(* |v| < EPS, exactly the test of the source.  A product of two values is  *)
(* in units of 1/SCALE^2 and is compared with epsilon as  p < EPS * SCALE. *)
(* Quotients are kept exact as pairs <<num, den>> (den = 0 stands for the  *)
(* IEEE result of a division by zero); rounding is not modelled.           *)
(*                                                                         *)
(* Missing sources.  MarchingCubes.h (get_data, set_data, get_x_vert,      *)
(* set_x_vert, set_method, set_resolution) and LookUpTable.h (cases,       *)
(* casesClassic, test*, tiling*, subconfig13) are not among the sources.   *)
(* The accessors are modelled from the data model (i fastest); the tables  *)
(* are modelled as fixed but arbitrary tables, one per value of lut.       *)
(***************************************************************************)
EXTENDS Integers, Sequences, FiniteSets, TLC

\* ---------------------------------------------------------------- bounds
\* runs allowed on one extractor between two constructions
MaxRuns == 2
\* entries of a sample pattern that may take a special value
MaxSpecial == 1
\* number of table variants explored
LutVariants == 2
\* triangles of one call of add_triangle explored on its own
MaxTri == 2
\* ALLOC_SIZE of the source is 65536; the model uses a small step so that
\* the doubling of the buffers happens on small grids
AllocSize == 4

\* ------------------------------------------------------------- constants
\* std::numeric_limits<float>::epsilon(), in units
EPS == 2
\* units per 1.0
SCALE == 4
\* memset( ..., -1, ... ): the sentinel "none" of the edge maps
NONE == -1

\* grid dimensions explored (Nx, Ny, Nz)
Dims == { <<2, 2, 2>>, <<3, 2, 2>>, <<1, 2, 2>> }
BaseVals == { -4, 5 }
\* values that fall within epsilon of the isovalue 1: exactly on it (1), and
\* below it by less than epsilon (0)
SpecialVals == { 0, 1 }
\* isovalues: 1 separates the base values, 8 lies above every sample
IsoVals == { 1, 8 }

\* sample patterns: an assignment of the 8 parities (i%2, j%2, k%2) to values:
\* every pattern over BaseVals, and the constant ones with up to MaxSpecial
\* entries replaced by a special value
Patterns ==
  { p \in [0..7 -> BaseVals \cup SpecialVals] :
      LET sp == { q \in 0..7 : p[q] \in SpecialVals }
      IN  \/ sp = {}
          \/ /\ Cardinality(sp) <= MaxSpecial
             /\ \A q, r \in (0..7) \ sp : p[q] = p[r] }

Abs(v) == IF v < 0 THEN -v ELSE v
Sign(v) == IF v < 0 THEN -1 ELSE IF v > 0 THEN 1 ELSE 0

\* ------------------------------------------------------------- extractor
\* MarchingCubes::MarchingCubes
constructor(sx, sy, sz) ==
  [ originalMC |-> FALSE,
    size_x |-> sx, size_y |-> sy, size_z |-> sz,
    nverts |-> 0, ntrigs |-> 0, Nverts |-> 0, Ntrigs |-> 0,
    data |-> << >>, x_verts |-> << >>, y_verts |-> << >>, z_verts |-> << >>,
    \* the entries of the two buffers below the counts nverts and ntrigs
    \* (what the storage holds above them is not kept)
    vertices |-> << >>, triangles |-> << >>,
    \* history of the accesses of the last run (not part of the object)
    oob |-> FALSE, overflow |-> FALSE, precount |-> TRUE, ncentral |-> 0 ]

\* the history of accesses, cleared
ClearHistory(m) ==
  [ m EXCEPT !.oob = FALSE, !.overflow = FALSE, !.precount = TRUE, !.ncentral = 0 ]

\* std::vector::resize: keeps the old elements, value-initialises new ones
resize(v, n, fill) ==
  [ t \in 1..n |-> IF t <= Len(v) THEN v[t] ELSE fill ]

\* MarchingCubes::init_temps
init_temps(m) ==
  LET n == m.size_x * m.size_y * m.size_z
  IN  [ m EXCEPT !.data = resize(m.data, n, 0),
                 !.x_verts = [ t \in 1..n |-> NONE ],
                 !.y_verts = [ t \in 1..n |-> NONE ],
                 !.z_verts = [ t \in 1..n |-> NONE ] ]

\* MarchingCubes::init_all
init_all(m) ==
  [ init_temps(m) EXCEPT !.nverts = 0, !.ntrigs = 0,
                         !.Nverts = AllocSize, !.Ntrigs = AllocSize,
                         !.vertices = << >>, !.triangles = << >> ]

\* MarchingCubes::clean_all
clean_all(m) ==
  [ m EXCEPT !.nverts = 0, !.ntrigs = 0, !.Nverts = 0, !.Ntrigs = 0,
             !.size_x = -1, !.size_y = -1, !.size_z = -1,
             !.vertices = << >>, !.triangles = << >> ]

\* a faulty write, which shifts the entries already in the buffer
put_front(buf, n, e) == << e >> \o buf

\* a write at position n (0-based) of a buffer, n its count
put(buf, n, e) == Append(buf, e)

\* the coordinates are inside the grid
InGrid(m, i, j, k) ==
  /\ 0 <= i /\ i < m.size_x
  /\ 0 <= j /\ j < m.size_y
  /\ 0 <= k /\ k < m.size_z

\* linear address of (i,j,k), i fastest
Index(m, i, j, k) == i + j * m.size_x + k * m.size_x * m.size_y

\* get_data: a read past the end of the vector yields an undefined value,
\* g[1] at an even address and g[2] at an odd one
get_data(m, g, i, j, k) ==
  LET n == Index(m, i, j, k)
  IN  IF 0 <= n /\ n < Len(m.data) THEN m.data[n + 1] ELSE g[(n % 2) + 1]

\* get_x_vert / get_y_vert / get_z_vert on one map
get_vert(map, m, i, j, k) ==
  LET n == Index(m, i, j, k)
  IN  IF 0 <= n /\ n < Len(map) THEN map[n + 1] ELSE NONE

\* set_x_vert / set_y_vert / set_z_vert on one map
set_vert(map, m, val, i, j, k) ==
  LET n == Index(m, i, j, k)
  IN  IF 0 <= n /\ n < Len(map) THEN [ map EXCEPT ![n + 1] = val ] ELSE map

\* ------------------------------------------------------------- gradient
\* get_x_grad, as twice the gradient (the halves of the central difference
\* stay integers)
get_x_grad(m, g, i, j, k) ==
  IF i > 0
  THEN IF i < m.size_x - 1
       THEN get_data(m, g, i + 1, j, k) - get_data(m, g, i - 1, j, k)
       ELSE 2 * (get_data(m, g, i, j, k) - get_data(m, g, i - 1, j, k))
  ELSE 2 * (get_data(m, g, i + 1, j, k) - get_data(m, g, i, j, k))

\* get_y_grad, as twice the gradient
get_y_grad(m, g, i, j, k) ==
  IF j > 0
  THEN IF j < m.size_y - 1
       THEN get_data(m, g, i, j + 1, k) - get_data(m, g, i, j - 1, k)
       ELSE 2 * (get_data(m, g, i, j, k) - get_data(m, g, i, j - 1, k))
  ELSE 2 * (get_data(m, g, i, j + 1, k) - get_data(m, g, i, j, k))

\* get_z_grad, as twice the gradient
get_z_grad(m, g, i, j, k) ==
  IF k > 0
  THEN IF k < m.size_z - 1
       THEN get_data(m, g, i, j, k + 1) - get_data(m, g, i, j, k - 1)
       ELSE 2 * (get_data(m, g, i, j, k) - get_data(m, g, i, j, k - 1))
  ELSE 2 * (get_data(m, g, i, j, k + 1) - get_data(m, g, i, j, k))

\* the samples get_x_grad / get_y_grad / get_z_grad read at (i,j,k)
x_grad_reads(m, i, j, k) ==
  IF i > 0
  THEN IF i < m.size_x - 1 THEN { <<i + 1, j, k>>, <<i - 1, j, k>> }
       ELSE { <<i, j, k>>, <<i - 1, j, k>> }
  ELSE { <<i + 1, j, k>>, <<i, j, k>> }

y_grad_reads(m, i, j, k) ==
  IF j > 0
  THEN IF j < m.size_y - 1 THEN { <<i, j + 1, k>>, <<i, j - 1, k>> }
       ELSE { <<i, j, k>>, <<i, j - 1, k>> }
  ELSE { <<i, j + 1, k>>, <<i, j, k>> }

z_grad_reads(m, i, j, k) ==
  IF k > 0
  THEN IF k < m.size_z - 1 THEN { <<i, j, k + 1>>, <<i, j, k - 1>> }
       ELSE { <<i, j, k>>, <<i, j, k - 1>> }
  ELSE { <<i, j, k + 1>>, <<i, j, k>> }

grad_reads(m, i, j, k) ==
  x_grad_reads(m, i, j, k) \cup y_grad_reads(m, i, j, k) \cup z_grad_reads(m, i, j, k)

\* some access of the set leaves the grid
SomeOutside(m, reads) == \E r \in reads : ~InGrid(m, r[1], r[2], r[3])

\* ------------------------------------------------------------- vertices
\* test_vertex_addition, with the history of the append that follows it:
\* precount: count <= capacity held before the growth check;
\* overflow: the append writes at or above the capacity in force after it
test_vertex_addition(m) ==
  LET cap == IF m.nverts >= m.Nverts THEN m.Nverts * 2 ELSE m.Nverts
  IN  [ m EXCEPT !.Nverts = cap,
                 !.precount = m.precount /\ m.nverts <= m.Nverts,
                 !.overflow = m.overflow \/ m.nverts >= cap ]

\* the exact quotient n / d, with a positive denominator when d # 0
Quot(n, d) == IF d < 0 THEN << -n, -d >> ELSE << n, d >>

\* the attributes of an edge vertex: u = num / den along the axis from
\* (i,j,k); nn = 2 * den * normal as an integer vector; `unit` tells whether
\* the source normalised the normal (its length is > 0)
vertex_of(axis, i, j, k, u, nn) ==
  [ kind |-> axis, i |-> i, j |-> j, k |-> k, num |-> u[1], den |-> u[2],
    nn |-> nn, unit |-> nn # <<0, 0, 0>>, parts |-> << >> ]

\* the normal (1-u) * grad(i,j,k) + u * grad(i1,j1,k1), times 2 * den
normal_at(m, g, i, j, k, i1, j1, k1, u) ==
  << (u[2] - u[1]) * get_x_grad(m, g, i, j, k) + u[1] * get_x_grad(m, g, i1, j1, k1),
     (u[2] - u[1]) * get_y_grad(m, g, i, j, k) + u[1] * get_y_grad(m, g, i1, j1, k1),
     (u[2] - u[1]) * get_z_grad(m, g, i, j, k) + u[1] * get_z_grad(m, g, i1, j1, k1) >>

\* the vertex on the edge from (i,j,k) to its neighbour (i1,j1,k1) along
\* the axis, with c0 and c1 the corner values at its ends: u = c0 / (c0 - c1)
edge_vertex(m, g, axis, c0, c1, i, j, k, i1, j1, k1) ==
  vertex_of(axis, i, j, k, Quot(c0, c0 - c1),
            normal_at(m, g, i, j, k, i1, j1, k1, Quot(c0, c0 - c1)))

\* a faulty write, which stores the vertex twice
push_vertex_twice(m1, vert, outside) ==
  [ m1 EXCEPT !.vertices = Append(Append(m1.vertices, vert), vert),
              !.nverts = m1.nverts + 2,
              !.oob = m1.oob \/ outside ]

\* the write of a vertex at index nverts, after the growth check gave m1;
\* outside: a gradient or a map was read outside the grid
push_vertex(m1, vert, outside) ==
  [ m1 EXCEPT !.vertices = put(m1.vertices, m1.nverts, vert),
              !.nverts = m1.nverts + 1,
              !.oob = m1.oob \/ outside ]

\* the append shared by add_x_vertex, add_y_vertex and add_z_vertex
append_edge_vertex(m, g, axis, c0, c1, i, j, k, i1, j1, k1) ==
  push_vertex(test_vertex_addition(m),
              edge_vertex(m, g, axis, c0, c1, i, j, k, i1, j1, k1),
              SomeOutside(m, grad_reads(m, i, j, k) \cup grad_reads(m, i1, j1, k1)))

\* add_x_vertex: cube is the current _cube, (i,j,k) the current _i,_j,_k
add_x_vertex(m, g, cube, i, j, k) ==
  append_edge_vertex(m, g, "x", cube[0], cube[1], i, j, k, i + 1, j, k)
\* add_y_vertex
add_y_vertex(m, g, cube, i, j, k) ==
  append_edge_vertex(m, g, "y", cube[0], cube[3], i, j, k, i, j + 1, k)
\* add_z_vertex
add_z_vertex(m, g, cube, i, j, k) ==
  append_edge_vertex(m, g, "z", cube[0], cube[4], i, j, k, i, j, k + 1)
\* ------------------------------------------------------------ edge pass
\* a perturbation left out: the corner value as it is
perturb_none(v) == v

\* the perturbation of a corner value
perturb(v) == IF Abs(v) < EPS THEN EPS ELSE v

\* a faulty sign test, which sees only the edges that rise through zero
crosses_rising(c0, c1) == c0 < 0 /\ c1 > 0

\* a faulty sign test, which takes a product within epsilon squared of zero
\* for a crossing
crosses_loose(c0, c1) == c0 * c1 <= EPS * EPS

\* the sign test of compute_intersection_points on a forward edge
crosses(c0, c1) == IF c0 < 0 THEN c1 > 0 ELSE c1 < 0

\* set_x_vert / set_y_vert / set_z_vert
set_x_vert(m, val, i, j, k) == [ m EXCEPT !.x_verts = set_vert(m.x_verts, m, val, i, j, k) ]
set_y_vert(m, val, i, j, k) == [ m EXCEPT !.y_verts = set_vert(m.y_verts, m, val, i, j, k) ]
set_z_vert(m, val, i, j, k) == [ m EXCEPT !.z_verts = set_vert(m.z_verts, m, val, i, j, k) ]

\* the history notes whether an access of `reads` leaves the grid
note_reads(m, reads) == [ m EXCEPT !.oob = m.oob \/ SomeOutside(m, reads) ]

\* the samples the loop body of compute_intersection_points reads at (i,j,k)
edge_reads(m, i, j, k) ==
  { <<i, j, k>> }
    \cup (IF i < m.size_x - 1 THEN { <<i + 1, j, k>> } ELSE {})
    \cup (IF j < m.size_y - 1 THEN { <<i, j + 1, k>> } ELSE {})
    \cup (IF k < m.size_z - 1 THEN { <<i, j, k + 1>> } ELSE {})

\* the corner values _cube[0], [1], [3], [4] the loop body loads at (i,j,k),
\* perturbed (the other corners are not used by the pass)
edge_cube(m, iso, g, i, j, k) ==
  [ p \in 0..7 |->
      IF p = 1 /\ i < m.size_x - 1 THEN perturb(get_data(m, g, i + 1, j, k) - iso)
      ELSE IF p = 3 /\ j < m.size_y - 1 THEN perturb(get_data(m, g, i, j + 1, k) - iso)
      ELSE IF p = 4 /\ k < m.size_z - 1 THEN perturb(get_data(m, g, i, j, k + 1) - iso)
      ELSE IF p \in { 0, 1, 3, 4 } THEN perturb(get_data(m, g, i, j, k) - iso)
      ELSE 0 ]

\* set_x_vert( add_x_vertex( ), _i,_j,_k ) on the extractor a that
\* add_x_vertex returned; likewise for y and z
set_x_next(a, i, j, k) == set_x_vert(a, a.nverts, i, j, k)  \* faulty: off by one
set_x_last(a, i, j, k) == set_x_vert(a, a.nverts - 1, i, j, k)
set_y_last(a, i, j, k) == set_y_vert(a, a.nverts - 1, i, j, k)
set_z_last(a, i, j, k) == set_z_vert(a, a.nverts - 1, i, j, k)

\* the three sign tests of the loop body
cross_x(m, g, cube, i, j, k) ==
  IF crosses(cube[0], cube[1]) THEN set_x_last(add_x_vertex(m, g, cube, i, j, k), i, j, k) ELSE m
cross_y(m, g, cube, i, j, k) ==
  IF crosses(cube[0], cube[3]) THEN set_y_last(add_y_vertex(m, g, cube, i, j, k), i, j, k) ELSE m
cross_z(m, g, cube, i, j, k) ==
  IF crosses(cube[0], cube[4]) THEN set_z_last(add_z_vertex(m, g, cube, i, j, k), i, j, k) ELSE m

\* the body of the loop of compute_intersection_points at voxel (i,j,k),
\* once the corner values cube are loaded
edge_tests(m, g, cube, i, j, k) ==
  cross_z(cross_y(cross_x(m, g, cube, i, j, k), g, cube, i, j, k), g, cube, i, j, k)

\* the body of the loop of compute_intersection_points at voxel (i,j,k)
edge_voxel(m, iso, g, i, j, k) ==
  edge_tests(note_reads(m, edge_reads(m, i, j, k)), g, edge_cube(m, iso, g, i, j, k), i, j, k)

\* number of iterations of a triple loop over [0,a) x [0,b) x [0,c)
LoopCount(a, b, c) == IF a > 0 /\ b > 0 /\ c > 0 THEN a * b * c ELSE 0

\* the loop of compute_intersection_points from its v-th iteration on
\* (k outermost, i innermost)
RECURSIVE edge_loop(_, _, _, _)
edge_loop(m, iso, g, v) ==
  IF v >= LoopCount(m.size_x, m.size_y, m.size_z) THEN m
  ELSE edge_loop(edge_voxel(m, iso, g, v % m.size_x,
                            (v \div m.size_x) % m.size_y,
                            v \div (m.size_x * m.size_y)),
                 iso, g, v + 1)

\* a compute_intersection_points that empties the mesh first
compute_intersection_points_reset(m, iso, g) ==
  edge_loop([ m EXCEPT !.nverts = 0, !.ntrigs = 0, !.vertices = << >>, !.triangles = << >> ],
            iso, g, 0)

\* MarchingCubes::compute_intersection_points
compute_intersection_points(m, iso, g) == edge_loop(m, iso, g, 0)
\* ---------------------------------------------------------------- cells
\* lattice offset of corner p: ((p^(p>>1))&1, (p>>1)&1, (p>>2)&1)
CornerDx(p) == ((p % 2) + ((p \div 2) % 2)) % 2
CornerDy(p) == (p \div 2) % 2
CornerDz(p) == (p \div 4) % 2

\* a faulty load, which leaves out the perturbation
load_cube_raw(m, iso, g, i, j, k) ==
  [ p \in 0..7 |-> get_data(m, g, i + CornerDx(p), j + CornerDy(p), k + CornerDz(p)) - iso ]

\* the corner values _cube[0..7] of cell (i,j,k) as run loads them
load_cube(m, iso, g, i, j, k) ==
  [ p \in 0..7 |->
      perturb(get_data(m, g, i + CornerDx(p), j + CornerDy(p), k + CornerDz(p)) - iso) ]

Pow2(p) == IF p = 0 THEN 1 ELSE IF p = 1 THEN 2 ELSE IF p = 2 THEN 4
           ELSE IF p = 3 THEN 8 ELSE IF p = 4 THEN 16 ELSE IF p = 5 THEN 32
           ELSE IF p = 6 THEN 64 ELSE 128

RECURSIVE BitSum(_, _)
BitSum(cube, p) ==
  IF p > 7 THEN 0
  ELSE (IF cube[p] > 0 THEN Pow2(p) ELSE 0) + BitSum(cube, p + 1)

\* _lut_entry: bit p is set iff cube[p] > 0
lut_entry(cube) == BitSum(cube, 0)

Bit(lam, p) == (lam \div Pow2(p)) % 2

\* the two corners joined by the local edge e (the pairs test_interior
\* divides by, in the order of its switch)
EdgeP0(e) == IF e < 8 THEN e ELSE e - 8
EdgeP1(e) == IF e < 4 THEN (e + 1) % 4
             ELSE IF e < 8 THEN 4 + ((e - 3) % 4)
             ELSE e - 4

\* the map and the voxel that add_triangle and add_c_vertex read for the
\* local edge e of cell (i,j,k): << axis, i', j', k' >>
EdgeEntry(e, i, j, k) ==
  CASE e = 0  -> << "x", i, j, k >>
    [] e = 1  -> << "y", i + 1, j, k >>
    [] e = 2  -> << "x", i, j + 1, k >>
    [] e = 3  -> << "y", i, j, k >>
    [] e = 4  -> << "x", i, j, k + 1 >>
    [] e = 5  -> << "y", i + 1, j, k + 1 >>
    [] e = 6  -> << "x", i, j + 1, k + 1 >>
    [] e = 7  -> << "y", i, j, k + 1 >>
    [] e = 8  -> << "z", i, j, k >>
    [] e = 9  -> << "z", i + 1, j, k >>
    [] e = 10 -> << "z", i + 1, j + 1, k >>
    [] e = 11 -> << "z", i, j + 1, k >>

\* the id the edge maps hold for entry << axis, i, j, k >>
EntryId(m, ent) ==
  IF ent[1] = "x" THEN get_vert(m.x_verts, m, ent[2], ent[3], ent[4])
  ELSE IF ent[1] = "y" THEN get_vert(m.y_verts, m, ent[2], ent[3], ent[4])
  ELSE get_vert(m.z_verts, m, ent[2], ent[3], ent[4])

\* --------------------------------------------------------------- tables
\* LookUpTable.h.  cases[lam] = (base case, configuration): the base case is
\* the class of the sign pattern under rotation, reflection and complement;
\* the configuration numbers the patterns of one class.
Positive(lam) ==
  LET on == { p \in 0..7 : Bit(lam, p) = 1 }
  IN  IF Cardinality(on) > 4 THEN (0..7) \ on ELSE on

Adjacent(p, q) ==
  Abs(CornerDx(p) - CornerDx(q)) + Abs(CornerDy(p) - CornerDy(q))
    + Abs(CornerDz(p) - CornerDz(q)) = 1

Opposite(p, q) ==
  /\ CornerDx(p) # CornerDx(q) /\ CornerDy(p) # CornerDy(q) /\ CornerDz(p) # CornerDz(q)

Degree(S, p) == Cardinality({ q \in S : Adjacent(p, q) })

\* offset of corner q from corner p
Step(p, q) == << CornerDx(q) - CornerDx(p), CornerDy(q) - CornerDy(p), CornerDz(q) - CornerDz(p) >>

Det3(u, v, w) ==
  u[1] * (v[2] * w[3] - v[3] * w[2]) - u[2] * (v[1] * w[3] - v[3] * w[1])
    + u[3] * (v[1] * w[2] - v[2] * w[1])

\* handedness of a chain a-b-c-d of four corners (the same read from
\* either end): cases 11 and 14 are mirror images
Handed(S) ==
  LET a == CHOOSE p \in S : Degree(S, p) = 1 /\ \A q \in S : Degree(S, q) = 1 => p <= q
      b == CHOOSE p \in S : Adjacent(a, p)
      c == CHOOSE p \in S \ {a} : Adjacent(b, p)
      d == CHOOSE p \in S \ {b} : Adjacent(c, p)
  IN  Det3(Step(a, b), Step(b, c), Step(c, d))

\* the class of the set S of n corners with adj adjacent pairs
ClassOf(S, n, adj) ==
  CASE n = 0 -> 0
    [] n = 1 -> 1
    [] n = 2 /\ adj = 1 -> 2
    [] n = 2 /\ adj = 0 /\ (\E p, q \in S : Opposite(p, q)) -> 4
    [] n = 2 /\ adj = 0 /\ ~(\E p, q \in S : Opposite(p, q)) -> 3
    [] n = 3 /\ adj = 2 -> 5
    [] n = 3 /\ adj = 1 -> 6
    [] n = 3 /\ adj = 0 -> 7
    [] n = 4 /\ adj = 4 -> 8
    [] n = 4 /\ adj = 3 /\ (\E p \in S : Degree(S, p) = 3) -> 9
    [] n = 4 /\ adj = 3 /\ ~(\E p \in S : Degree(S, p) = 3) ->
         IF Handed(S) > 0 THEN 11 ELSE 14
    [] n = 4 /\ adj = 2 /\ ~(\E p \in S : Degree(S, p) = 0) -> 10
    [] n = 4 /\ adj = 2 /\ (\E p \in S : Degree(S, p) = 0) -> 12
    [] n = 4 /\ adj = 0 -> 13

\* the number of adjacent pairs of S
AdjacentPairs(S) ==
  Cardinality({ pq \in S \X S : pq[1] < pq[2] /\ Adjacent(pq[1], pq[2]) })

Classify(S) == ClassOf(S, Cardinality(S), AdjacentPairs(S))

BaseCase(lam) == Classify(Positive(lam))

\* the base case of every pattern
BaseCases == [ lam \in 0..255 |-> BaseCase(lam) ]

cases ==
  [ lam \in 0..255 |->
      << BaseCases[lam],
         IF BaseCases[lam] = 0 THEN -1
         ELSE Cardinality({ l \in 0..(lam - 1) : BaseCases[l] = BaseCases[lam] }) >> ]
\* the local edges whose two corners have different bits in lam, ascending
RECURSIVE CrossFrom(_, _)
CrossFrom(lam, e) ==
  IF e > 11 THEN << >>
  ELSE (IF Bit(lam, EdgeP0(e)) # Bit(lam, EdgeP1(e)) THEN << e >> ELSE << >>)
       \o CrossFrom(lam, e + 1)

CrossEdges == [ lam \in 0..255 |-> CrossFrom(lam, 0) ]

\* The contents of the test and tiling tables, fixed by the table variant
\* lut.  A tiling entry is one of the intersected edges of the pattern, or
\* 12 in the tilings that are emitted with a central vertex.
TileEdge(lut, code, lam, sub, t, central) ==
  LET allowed == IF central THEN CrossEdges[lam] \o << 12 >> ELSE CrossEdges[lam]
  IN  allowed[1 + ((code + 5 * sub + lut + t * (1 + lut)) % Len(allowed))]

\* a tiling of n triangles: the 3n entries trig[0 .. 3n-1]
Tiling(lut, code, lam, sub, n, central) ==
  [ t \in 1..(3 * n) |-> TileEdge(lut, code, lam, sub, t - 1, central) ]

\* a face entry of test3, test6, test7, test10, test12, test13: +-1 .. +-6
FaceEntry(lut, code, config, pos) ==
  LET h == (code + config + 5 * pos + lut) % 12
  IN  IF h < 6 THEN h + 1 ELSE 5 - h

\* an interior-test entry of test4, test6, test7, test10, test12, test13: +-7
SignEntry(lut, code, config) == IF (code + config + lut) % 2 = 0 THEN 7 ELSE -7

\* a reference-edge entry of test6, test7, test12
RefEdge(lut, code, lam, config) ==
  CrossEdges[lam][1 + ((code + config + lut) % Len(CrossEdges[lam]))]

\* subconfig13[0..63]: a tile number 0..45, or -1
subconfig13(lut, sub) == ((sub * (3 + lut) + lut) % 47) - 1

\* the number of triangles of casesClassic[lam]
ClassicCount(lut, lam) ==
  IF Len(CrossEdges[lam]) = 0 THEN 0 ELSE 1 + ((lam + lut) % 5)

\* casesClassic[lam]: 16 entries, the triangles then -1
casesClassic(lut, lam) ==
  [ t \in 1..16 |-> IF t <= 3 * ClassicCount(lut, lam)
                     THEN TileEdge(lut, 0, lam, 0, t - 1, FALSE) ELSE -1 ]

\* ------------------------------------------------------------ face test
corner_lookup ==
  << <<0, 4, 5, 1>>, <<1, 5, 6, 2>>, <<2, 6, 7, 3>>,
     <<3, 7, 4, 0>>, <<0, 3, 2, 1>>, <<4, 7, 6, 5>> >>

\* a face test without the degenerate branch
test_face_sign(cube, face) ==
  face * cube[corner_lookup[Abs(face)][1]]
    * (cube[corner_lookup[Abs(face)][1]] * cube[corner_lookup[Abs(face)][3]]
       - cube[corner_lookup[Abs(face)][2]] * cube[corner_lookup[Abs(face)][4]]) >= 0

\* MarchingCubes::test_face
test_face(cube, face) ==
  LET corners == corner_lookup[Abs(face)]
      A == cube[corners[1]]
      B == cube[corners[2]]
      C == cube[corners[3]]
      D == cube[corners[4]]
  IN  IF Abs(A * C - B * D) < EPS * SCALE THEN face >= 0
      ELSE face * A * (A * C - B * D) >= 0

\* -------------------------------------------------------- interior test
\* per reference edge: the corners of t = cube[p0] / (cube[p0] - cube[p1])
\* and of Bt, Ct, Dt = cube[a] + (cube[b] - cube[a]) * t
interior_lookup ==
  [ e \in 0..11 |->
      CASE e = 0  -> << 0, 1,  3, 2,  7, 6,  4, 5 >>
        [] e = 1  -> << 1, 2,  0, 3,  4, 7,  5, 6 >>
        [] e = 2  -> << 2, 3,  1, 0,  5, 4,  6, 7 >>
        [] e = 3  -> << 3, 0,  2, 1,  6, 5,  7, 4 >>
        [] e = 4  -> << 4, 5,  7, 6,  3, 2,  0, 1 >>
        [] e = 5  -> << 5, 6,  4, 7,  0, 3,  1, 2 >>
        [] e = 6  -> << 6, 7,  5, 4,  1, 0,  2, 3 >>
        [] e = 7  -> << 7, 4,  6, 5,  2, 1,  3, 0 >>
        [] e = 8  -> << 0, 4,  3, 7,  2, 6,  1, 5 >>
        [] e = 9  -> << 1, 5,  0, 4,  3, 7,  2, 6 >>
        [] e = 10 -> << 2, 6,  1, 5,  0, 4,  3, 7 >>
        [] e = 11 -> << 3, 7,  2, 6,  1, 5,  0, 4 >> ]

\* den * (c0 + (c1 - c0) * t) for t = num / den, den > 0
Lerp(c0, c1, t) == c0 * t[2] + (c1 - c0) * t[1]

\* the value c0 + (c1 - c0) * t is >= 0; for den = 0 (t infinite, of the
\* sign of num) the value is infinite, or not a number when c1 = c0
LerpGe0(c0, c1, t) ==
  IF t[2] # 0 THEN Lerp(c0, c1, t) >= 0
  ELSE (c1 - c0) * t[1] > 0

\* a decision that ignores the outcome `test`
interior_decide_positive(s, ge, small, big) == s > 0

\* the switch on `test` that ends test_interior: ge = <<At >= 0, Bt >= 0,
\* Ct >= 0, Dt >= 0>>, small = (At*Ct - Bt*Dt < epsilon), big = (... >= epsilon)
interior_decide(s, ge, small, big) ==
  LET test == (IF ge[1] THEN 1 ELSE 0) + (IF ge[2] THEN 2 ELSE 0)
              + (IF ge[3] THEN 4 ELSE 0) + (IF ge[4] THEN 8 ELSE 0)
  IN  IF test \in { 0, 1, 2, 3, 4, 6, 8, 9, 12 } THEN s > 0
      ELSE IF test = 5 /\ small THEN s > 0
      ELSE IF test = 10 /\ big THEN s > 0
      ELSE s < 0

\* the end of test_interior for cases 4 and 10, t = num / den in [0, 1]:
\* At, Bt, Ct, Dt are den times the interpolated corner values
interior_diag_at(s, At, Bt, Ct, Dt, den) ==
  interior_decide(s, << At >= 0, Bt >= 0, Ct >= 0, Dt >= 0 >>,
                  At * Ct - Bt * Dt < EPS * SCALE * den * den,
                  At * Ct - Bt * Dt >= EPS * SCALE * den * den)

\* test_interior for cases 4 and 10 once t = -b / (2a) is known; a = 0
\* makes t infinite (returns at once) or not a number (test = 0)
interior_diag_t(cube, s, t) ==
  IF t[2] = 0 THEN s > 0
  ELSE IF t[1] < 0 \/ t[1] > t[2] THEN s > 0
  ELSE interior_diag_at(s, Lerp(cube[0], cube[4], t), Lerp(cube[3], cube[7], t),
                        Lerp(cube[2], cube[6], t), Lerp(cube[1], cube[5], t), t[2])

\* MarchingCubes::test_interior, cases 4 and 10
test_interior_diag(cube, s) ==
  interior_diag_t(cube, s,
    Quot(0 - (cube[2] * (cube[4] - cube[0]) + cube[0] * (cube[6] - cube[2])
              - cube[1] * (cube[7] - cube[3]) - cube[3] * (cube[5] - cube[1])),
         2 * ((cube[4] - cube[0]) * (cube[6] - cube[2])
              - (cube[7] - cube[3]) * (cube[5] - cube[1]))))

\* a faulty end of test_interior, which takes At for negative
interior_edge_neg(cube, s, c, t) ==
  interior_decide(s,
    << FALSE, LerpGe0(cube[c[3]], cube[c[4]], t),
       LerpGe0(cube[c[5]], cube[c[6]], t), LerpGe0(cube[c[7]], cube[c[8]], t) >>,
    TRUE, FALSE)

\* the end of test_interior for a reference edge: At = 0, and Bt, Ct, Dt
\* interpolated at t between the corner pairs c[3..8]
interior_edge_t(cube, s, c, t) ==
  interior_decide(s,
    << TRUE, LerpGe0(cube[c[3]], cube[c[4]], t),
       LerpGe0(cube[c[5]], cube[c[6]], t), LerpGe0(cube[c[7]], cube[c[8]], t) >>,
    t[2] # 0 /\ 0 - Lerp(cube[c[3]], cube[c[4]], t) * Lerp(cube[c[7]], cube[c[8]], t)
                  < EPS * SCALE * t[2] * t[2],
    t[2] # 0 /\ 0 - Lerp(cube[c[3]], cube[c[4]], t) * Lerp(cube[c[7]], cube[c[8]], t)
                  >= EPS * SCALE * t[2] * t[2])

\* test_interior for the reference edge with corners c: t = c0 / (c0 - c1)
interior_edge_c(cube, s, c) ==
  interior_edge_t(cube, s, c, Quot(cube[c[1]], cube[c[1]] - cube[c[2]]))

\* MarchingCubes::test_interior, cases 6, 7, 12 and 13 with reference edge
test_interior_edge(cube, s, edge) ==
  IF edge \notin 0..11
  THEN \* "Invalid edge": At = Bt = Ct = Dt = 0
       interior_decide(s, << TRUE, TRUE, TRUE, TRUE >>, TRUE, FALSE)
  ELSE interior_edge_c(cube, s, interior_lookup[edge])

\* MarchingCubes::test_interior: case, config, subconfig are the fields
\* _case, _config, _subconfig
test_interior(cube, s, case, config, subconfig, lut, lam) ==
  IF case \in { 4, 10 } THEN test_interior_diag(cube, s)
  ELSE IF case = 6 THEN test_interior_edge(cube, s, RefEdge(lut, 62, lam, config))
  ELSE IF case = 7 THEN test_interior_edge(cube, s, RefEdge(lut, 74, lam, config))
  ELSE IF case = 12 THEN test_interior_edge(cube, s, RefEdge(lut, 123, lam, config))
  ELSE IF case = 13 THEN test_interior_edge(cube, s, TileEdge(lut, 1351, lam, subconfig, 0, FALSE))
  ELSE \* "Invalid ambiguous case": At = Bt = Ct = Dt = 0
       interior_decide(s, << TRUE, TRUE, TRUE, TRUE >>, TRUE, FALSE)
\* --------------------------------------------------------- process_cube
\* what one branch of process_cube emits: the tiling tbl[config] or
\* tbl[config][sub] of n triangles, after a central vertex when `central`;
\* subconfig is the field _subconfig as the branch leaves it
Emit(lut, lam, tbl, code, sub, n, central, subconfig) ==
  [ tbl |-> tbl, sub |-> sub, n |-> n, central |-> central, subconfig |-> subconfig,
    trig |-> Tiling(lut, code, lam, sub, n, central) ]

\* process_cube, classical method: nt counts the triangles up to the -1
RECURSIVE ClassicScan(_, _)
ClassicScan(row, nt) == IF row[3 * nt + 1] # -1 THEN ClassicScan(row, nt + 1) ELSE nt

\* the sum of the face tests of cases 7 and 13: bit q is test_face(test[config][q])
RECURSIVE FaceBits(_, _, _, _, _, _)
FaceBits(cube, lut, code, config, q, last) ==
  IF q > last THEN 0
  ELSE (IF test_face(cube, FaceEntry(lut, code, config, q)) THEN Pow2(q) ELSE 0)
       + FaceBits(cube, lut, code, config, q + 1, last)

\* process_cube, case 13: v is subconfig13[_subconfig]
resolve13(cube, lut, lam, config, subconfig) ==
  LET v == subconfig13(lut, subconfig)
      E(tbl, code, sub, n, central, sc) == Emit(lut, lam, tbl, code, sub, n, central, sc)
  IN  CASE v = 0 -> E("tiling13_1", 131, 0, 4, FALSE, subconfig)
        [] v \in 1..6 -> E("tiling13_2", 132, v - 1, 6, FALSE, subconfig)
        [] v \in 7..18 -> E("tiling13_3", 133, v - 7, 10, TRUE, subconfig)
        [] v \in 19..22 -> E("tiling13_4", 134, v - 19, 12, TRUE, subconfig)
        [] v \in 23..26 ->
             IF test_interior(cube, SignEntry(lut, 136, config), 13, config, v - 23, lut, lam)
             THEN E("tiling13_5_1", 1351, v - 23, 6, FALSE, v - 23)
             ELSE E("tiling13_5_2", 1352, v - 23, 10, FALSE, v - 23)
        [] v \in 27..38 -> E("tiling13_3_", 1330, v - 27, 10, TRUE, subconfig)
        [] v \in 39..44 -> E("tiling13_2_", 1320, v - 39, 6, FALSE, subconfig)
        [] v = 45 -> E("tiling13_1_", 1310, 0, 4, FALSE, subconfig)
        [] OTHER -> E("none", 0, 0, 0, FALSE, subconfig)

\* case 7 with the two tilings of subconfiguration 7 exchanged
resolve7_exchanged(cube, lut, lam, config, subconfig) ==
  LET E(tbl, code, sub, n, central) == Emit(lut, lam, tbl, code, sub, n, central, subconfig)
  IN  CASE subconfig = 0 -> E("tiling7_1", 71, 0, 3, FALSE)
        [] subconfig = 1 -> E("tiling7_2", 72, 0, 5, FALSE)
        [] subconfig = 2 -> E("tiling7_2", 72, 1, 5, FALSE)
        [] subconfig = 3 -> E("tiling7_3", 730, 0, 9, TRUE)
        [] subconfig = 4 -> E("tiling7_2", 72, 2, 5, FALSE)
        [] subconfig = 5 -> E("tiling7_3", 730, 1, 9, TRUE)
        [] subconfig = 6 -> E("tiling7_3", 730, 2, 9, TRUE)
        [] subconfig = 7 ->
             IF test_interior(cube, SignEntry(lut, 73, config), 7, config, subconfig, lut, lam)
             THEN E("tiling7_4_1", 741, 0, 5, FALSE)
             ELSE E("tiling7_4_2", 742, 0, 9, FALSE)

\* process_cube, case 7: subconfig is the sum of the three face tests
resolve7(cube, lut, lam, config, subconfig) ==
  LET E(tbl, code, sub, n, central) == Emit(lut, lam, tbl, code, sub, n, central, subconfig)
  IN  CASE subconfig = 0 -> E("tiling7_1", 71, 0, 3, FALSE)
        [] subconfig = 1 -> E("tiling7_2", 72, 0, 5, FALSE)
        [] subconfig = 2 -> E("tiling7_2", 72, 1, 5, FALSE)
        [] subconfig = 3 -> E("tiling7_3", 730, 0, 9, TRUE)
        [] subconfig = 4 -> E("tiling7_2", 72, 2, 5, FALSE)
        [] subconfig = 5 -> E("tiling7_3", 730, 1, 9, TRUE)
        [] subconfig = 6 -> E("tiling7_3", 730, 2, 9, TRUE)
        [] subconfig = 7 ->
             IF test_interior(cube, SignEntry(lut, 73, config), 7, config, subconfig, lut, lam)
             THEN E("tiling7_4_2", 742, 0, 9, FALSE)
             ELSE E("tiling7_4_1", 741, 0, 5, FALSE)

\* process_cube, topological method, the switch on the base case
resolve_case(cube, lut, lam, case, config) ==
  LET E(tbl, code, sub, n, central, sc) == Emit(lut, lam, tbl, code, sub, n, central, sc)
      face(code, pos) == test_face(cube, FaceEntry(lut, code, config, pos))
      interior(code, sc) == test_interior(cube, SignEntry(lut, code, config), case, config, sc, lut, lam)
  IN  CASE case = 0 -> E("none", 0, 0, 0, FALSE, 0)
        [] case = 1 -> E("tiling1", 1, 0, 1, FALSE, 0)
        [] case = 2 -> E("tiling2", 2, 0, 2, FALSE, 0)
        [] case = 3 -> IF face(3, 0) THEN E("tiling3_2", 32, 0, 4, FALSE, 0)
                       ELSE E("tiling3_1", 31, 0, 2, FALSE, 0)
        [] case = 4 -> IF interior(4, 0) THEN E("tiling4_1", 41, 0, 2, FALSE, 0)
                       ELSE E("tiling4_2", 42, 0, 6, FALSE, 0)
        [] case = 5 -> E("tiling5", 5, 0, 3, FALSE, 0)
        [] case = 6 -> IF face(6, 0) THEN E("tiling6_2", 620, 0, 5, FALSE, 0)
                       ELSE IF interior(61, 0) THEN E("tiling6_1_1", 611, 0, 3, FALSE, 0)
                       ELSE E("tiling6_1_2", 612, 0, 9, TRUE, 0)
        [] case = 7 -> resolve7(cube, lut, lam, config, FaceBits(cube, lut, 7, config, 0, 2))
        [] case = 8 -> E("tiling8", 8, 0, 2, FALSE, 0)
        [] case = 9 -> E("tiling9", 9, 0, 4, FALSE, 0)
        [] case = 10 ->
             IF face(10, 0)
             THEN IF face(10, 1) THEN E("tiling10_1_1_", 1011, 0, 4, FALSE, 0)
                  ELSE E("tiling10_2", 1020, 0, 8, TRUE, 0)
             ELSE IF face(10, 1) THEN E("tiling10_2_", 1021, 0, 8, TRUE, 0)
                  ELSE IF interior(102, 0) THEN E("tiling10_1_1", 1010, 0, 4, FALSE, 0)
                  ELSE E("tiling10_1_2", 1012, 0, 8, FALSE, 0)
        [] case = 11 -> E("tiling11", 11, 0, 4, FALSE, 0)
        [] case = 12 ->
             IF face(12, 0)
             THEN IF face(12, 1) THEN E("tiling12_1_1_", 1211, 0, 4, FALSE, 0)
                  ELSE E("tiling12_2", 1220, 0, 8, TRUE, 0)
             ELSE IF face(12, 1) THEN E("tiling12_2_", 1221, 0, 8, TRUE, 0)
                  ELSE IF interior(122, 0) THEN E("tiling12_1_1", 1210, 0, 4, FALSE, 0)
                  ELSE E("tiling12_1_2", 1212, 0, 8, FALSE, 0)
        [] case = 13 -> resolve13(cube, lut, lam, config, FaceBits(cube, lut, 13, config, 0, 5))
        [] case = 14 -> E("tiling14", 14, 0, 4, FALSE, 0)

\* process_cube, topological method: the branch taken for the corner values
\* cube with case index lam
resolve(cube, lut, lam) == resolve_case(cube, lut, lam, cases[lam][1], cases[lam][2])

\* the values of _subconfig with which the branch of process_cube taken for
\* the corner values cube calls test_interior (none, or one)
interior_calls(cube, lut, lam, case, config) ==
  LET face(code, pos) == test_face(cube, FaceEntry(lut, code, config, pos))
  IN  CASE case = 4 -> { 0 }
        [] case = 6 -> IF face(6, 0) THEN {} ELSE { 0 }
        [] case = 7 -> IF FaceBits(cube, lut, 7, config, 0, 2) = 7 THEN { 7 } ELSE {}
        [] case \in { 10, 12 } -> IF face(case, 0) \/ face(case, 1) THEN {} ELSE { 0 }
        [] case = 13 ->
             IF subconfig13(lut, FaceBits(cube, lut, 13, config, 0, 5)) \in 23..26
             THEN { subconfig13(lut, FaceBits(cube, lut, 13, config, 0, 5)) - 23 }
             ELSE {}
        [] OTHER -> {}

\* the reference edge test_interior selects for cases 6, 7, 12 and 13
reference_edge(case, config, subconfig, lut, lam) ==
  IF case = 6 THEN RefEdge(lut, 62, lam, config)
  ELSE IF case = 7 THEN RefEdge(lut, 74, lam, config)
  ELSE IF case = 12 THEN RefEdge(lut, 123, lam, config)
  ELSE TileEdge(lut, 1351, lam, subconfig, 0, FALSE)

\* the divisor of the division test_interior executes: 2 * a in cases 4 and
\* 10, cube[p0] - cube[p1] for the reference edge in cases 6, 7, 12 and 13
interior_divisor(cube, case, config, subconfig, lut, lam) ==
  IF case \in { 4, 10 }
  THEN 2 * ((cube[4] - cube[0]) * (cube[6] - cube[2])
            - (cube[7] - cube[3]) * (cube[5] - cube[1]))
  ELSE cube[interior_lookup[reference_edge(case, config, subconfig, lut, lam)][1]]
       - cube[interior_lookup[reference_edge(case, config, subconfig, lut, lam)][2]]

\* ------------------------------------------------------- central vertex
\* the ids add_c_vertex averages: the entries of the 12 edges of cell
\* (i,j,k) that are not none, in the order it reads them
RECURSIVE CellParts(_, _, _, _, _)
CellParts(m, e, i, j, k) ==
  IF e > 11 THEN << >>
  ELSE LET vid == EntryId(m, EdgeEntry(e, i, j, k))
       IN  (IF vid # NONE THEN << vid >> ELSE << >>) \o CellParts(m, e + 1, i, j, k)

\* the maps' entries read for the 12 edges of cell (i,j,k)
CellReads(i, j, k) ==
  { << EdgeEntry(e, i, j, k)[2], EdgeEntry(e, i, j, k)[3], EdgeEntry(e, i, j, k)[4] >> : e \in 0..11 }

\* MarchingCubes::add_c_vertex: position = (sum of the positions of the
\* vertices `parts`) / den, normal = the sum of their normals, normalised
add_c_vertex(m, i, j, k) ==
  LET parts == CellParts(m, 0, i, j, k)
      vert == [ kind |-> "c", i |-> i, j |-> j, k |-> k, num |-> 0, den |-> Len(parts),
                nn |-> <<0, 0, 0>>, unit |-> FALSE, parts |-> parts ]
      m2 == push_vertex(test_vertex_addition(m), vert, SomeOutside(m, CellReads(i, j, k)))
  IN  [ m2 EXCEPT !.ncentral = m.ncentral + 1 ]

\* ------------------------------------------------------------ triangles
\* the translation of one tiling entry by the switch of add_triangle; an
\* entry outside 0..12 leaves tv[t%3] as it was
translate(m, e, v12, old, i, j, k) ==
  IF e \in 0..11 THEN EntryId(m, EdgeEntry(e, i, j, k))
  ELSE IF e = 12 THEN v12 ELSE old

\* the append of add_triangle, with the history of the append
append_triangle(m, tv) ==
  LET cap == IF m.ntrigs >= m.Ntrigs THEN m.Ntrigs * 2 ELSE m.Ntrigs
  IN  [ m EXCEPT !.Ntrigs = cap,
                 !.triangles = put(m.triangles, m.ntrigs, [ v1 |-> tv[1], v2 |-> tv[2], v3 |-> tv[3] ]),
                 !.ntrigs = m.ntrigs + 1,
                 !.precount = m.precount /\ m.ntrigs <= m.Ntrigs,
                 !.overflow = m.overflow \/ m.ntrigs >= cap ]

\* a loop of add_triangle that drops a triangle holding the id none
RECURSIVE triangle_loop_valid(_, _, _, _, _, _, _, _, _)
triangle_loop_valid(m, trig, n, v12, tv, t, i, j, k) ==
  IF t >= 3 * n THEN m
  ELSE LET tv1 == [ tv EXCEPT ![(t % 3) + 1] = translate(m, trig[t + 1], v12, tv[(t % 3) + 1], i, j, k) ]
           m1  == IF t % 3 = 2 /\ NONE \notin { tv1[1], tv1[2], tv1[3] }
                  THEN append_triangle(m, tv1) ELSE m
       IN  triangle_loop_valid(m1, trig, n, v12, tv1, t + 1, i, j, k)

\* the loop of add_triangle from entry t (0-based) on
RECURSIVE triangle_loop(_, _, _, _, _, _, _, _, _)
triangle_loop(m, trig, n, v12, tv, t, i, j, k) ==
  IF t >= 3 * n THEN m
  ELSE LET e   == trig[t + 1]
           tv1 == [ tv EXCEPT ![(t % 3) + 1] = translate(m, e, v12, tv[(t % 3) + 1], i, j, k) ]
           m0  == [ m EXCEPT !.oob = m.oob \/ (e \in 0..11 /\ SomeOutside(m,
                        { << EdgeEntry(e, i, j, k)[2], EdgeEntry(e, i, j, k)[3], EdgeEntry(e, i, j, k)[4] >> })) ]
           m1  == IF t % 3 = 2 THEN append_triangle(m0, tv1) ELSE m0
       IN  triangle_loop(m1, trig, n, v12, tv1, t + 1, i, j, k)

\* MarchingCubes::add_triangle; undef is the value of the uninitialised tv
add_triangle(m, trig, n, v12, undef, i, j, k) ==
  triangle_loop(m, trig, n, v12, << undef, undef, undef >>, 0, i, j, k)

\* process_cube, classical method: the triangles of the row casesClassic[lam]
process_classic(m, row, g, i, j, k) ==
  add_triangle(m, row, ClassicScan(row, 0), -1, g[1], i, j, k)

\* process_cube, topological method, a branch with a central vertex: m1 is
\* the extractor after add_c_vertex, whose result is the last id
process_central(m1, r, g, i, j, k) ==
  add_triangle(m1, r.trig, r.n, m1.nverts - 1, g[1], i, j, k)

\* a faulty process_cube, which makes a central vertex in every branch
process_always_central(m, r, g, i, j, k) ==
  process_central(add_c_vertex(m, i, j, k), r, g, i, j, k)

\* process_cube, topological method: r is the branch taken
process_topological(m, r, g, i, j, k) ==
  IF r.central THEN process_central(add_c_vertex(m, i, j, k), r, g, i, j, k)
  ELSE add_triangle(m, r.trig, r.n, -1, g[1], i, j, k)

\* MarchingCubes::process_cube for the loaded cube of cell (i,j,k)
process_cube(m, cube, lut, g, i, j, k) ==
  IF m.originalMC
  THEN process_classic(m, casesClassic(lut, lut_entry(cube)), g, i, j, k)
  ELSE process_topological(m, resolve(cube, lut, lut_entry(cube)), g, i, j, k)

\* the body of the cell loop of run at cell (i,j,k)
cell_step(m, iso, lut, g, i, j, k) ==
  process_cube(note_reads(m, { << i + CornerDx(p), j + CornerDy(p), k + CornerDz(p) >> : p \in 0..7 }),
               load_cube(m, iso, g, i, j, k), lut, g, i, j, k)

\* the cell loop of run from its c-th iteration on (k outermost)
RECURSIVE cell_loop(_, _, _, _, _)
cell_loop(m, iso, lut, g, c) ==
  IF c >= LoopCount(m.size_x - 1, m.size_y - 1, m.size_z - 1) THEN m
  ELSE cell_loop(cell_step(m, iso, lut, g, c % (m.size_x - 1),
                           (c \div (m.size_x - 1)) % (m.size_y - 1),
                           c \div ((m.size_x - 1) * (m.size_y - 1))),
                 iso, lut, g, c + 1)

\* MarchingCubes::run
run(m, iso, lut, g) == cell_loop(compute_intersection_points(m, iso, g), iso, lut, g, 0)
\* -------------------------------------------------------- state machine
VARIABLES
  mc,      \* the extractor
  pc,      \* "idle", or "cells": run is between its two passes
  iso,     \* the isovalue of the run in progress or last made
  g,       \* the undefined values of that run
  lut,     \* the table variant
  runs,    \* runs made
  since,   \* runs completed since the last init_all (-1: none yet)
  filled,  \* the samples have been set
  before,  \* the extractor as the run in progress or last made found it
  call     \* the arguments of a call of add_triangle explored on its own

vars == << mc, pc, iso, g, lut, runs, since, filled, before, call >>

\* set_data at every sample of the grid of m, from the pattern p
PatternData(m, p) ==
  [ t \in 1..Len(m.data) |->
      LET n == t - 1
          i == n % m.size_x
          j == (n \div m.size_x) % m.size_y
          k == n \div (m.size_x * m.size_y)
      IN  p[(i % 2) + 2 * (j % 2) + 4 * (k % 2)] ]

\* a run of m can read past the end of the samples
ReadsUndefined(m) ==
  /\ LoopCount(m.size_x, m.size_y, m.size_z) > 0
  /\ \/ Len(m.data) < m.size_x * m.size_y * m.size_z
     \/ m.size_x = 1 \/ m.size_y = 1 \/ m.size_z = 1

\* the values an undefined read may yield (at even and at odd addresses)
UndefVals == { << -4, 5 >>, << 5, -4 >> }

NoCall == [ trig |-> << >>, n |-> 0, v12 |-> NONE ]

Init ==
  /\ \E d \in Dims : mc = constructor(d[1], d[2], d[3])
  /\ pc = "idle"
  /\ iso = 0
  /\ g = << 0, 0 >>
  /\ lut \in 0..(LutVariants - 1)
  /\ runs = 0
  /\ since = -1
  /\ filled = FALSE
  /\ before = constructor(-1, -1, -1)
  /\ call = NoCall

\* set_method
SetMethod ==
  /\ pc = "idle" /\ runs = 0
  /\ \E b \in BOOLEAN : b # mc.originalMC /\ mc' = [ mc EXCEPT !.originalMC = b ]
  /\ UNCHANGED << pc, iso, g, lut, runs, since, filled, before, call >>

\* init_all (a negative size is a fatal allocation failure; a second call
\* in a row changes nothing); the history starts anew
InitAll ==
  /\ pc = "idle" /\ since # 0
  /\ mc.size_x > 0 /\ mc.size_y > 0 /\ mc.size_z > 0
  /\ mc' = ClearHistory(init_all(mc))
  /\ since' = 0
  /\ iso' = 0
  /\ g' = << 0, 0 >>
  /\ before' = constructor(-1, -1, -1)
  /\ UNCHANGED << pc, lut, runs, filled, call >>

\* the producer fills the grid with set_data (a loop over the grid: nothing
\* is written on a cleaned extractor)
SetData ==
  /\ pc = "idle" /\ since = 0 /\ ~filled /\ mc.size_x # -1
  /\ \E p \in Patterns : mc' = [ mc EXCEPT !.data = PatternData(mc, p) ]
  /\ filled' = TRUE
  /\ UNCHANGED << pc, iso, g, lut, runs, since, before, call >>

\* clean_all; the history starts anew
CleanAll ==
  /\ pc = "idle" /\ mc.size_x # -1
  /\ mc' = ClearHistory(clean_all(mc))
  /\ iso' = 0
  /\ g' = << 0, 0 >>
  /\ before' = constructor(-1, -1, -1)
  /\ UNCHANGED << pc, lut, runs, since, filled, call >>

\* run, first pass: compute_intersection_points (on a cleaned extractor
\* neither loop of run has an iteration: the call changes nothing)
RunEdges ==
  /\ pc = "idle" /\ runs < MaxRuns /\ mc.size_x # -1
  /\ \E tau \in IsoVals :
       \E u \in (IF ReadsUndefined(mc) THEN UndefVals ELSE { << 0, 0 >> }) :
         /\ mc' = compute_intersection_points(ClearHistory(mc), tau, u)
         /\ iso' = tau
         /\ g' = u
  /\ pc' = "cells"
  /\ before' = mc
  /\ UNCHANGED << lut, runs, since, filled, call >>

\* run, second pass: the loop over the cells
RunCells ==
  /\ pc = "cells"
  /\ mc' = cell_loop(mc, iso, lut, g, 0)
  /\ pc' = "idle"
  /\ runs' = runs + 1
  /\ since' = IF since >= 0 THEN since + 1 ELSE since
  /\ UNCHANGED << iso, g, lut, filled, before, call >>

Next ==
  \/ SetMethod
  \/ InitAll
  \/ SetData
  \/ CleanAll
  \/ RunEdges
  \/ RunCells

Spec == Init /\ [][Next]_vars

\* ------------------------------------------- add_triangle on its own
\* The calls of add_triangle for the first cell of a 2x2x2 grid, after the
\* edge pass of a first run at isovalue 1, with every tile over TriEdges.
\* samples: corner 0 and corner 6 of the cell take either base value
TriPatterns == { p \in [0..7 -> BaseVals] : \A q \in 1..6 : p[q] = -4 }
\* tile entries: edge 0 (at corner 0), edge 6 (at corner 6), the central vertex
TriEdges == { 0, 6, 12 }
TriCalls ==
  { c \in [ trig : UNION { [1..(3 * n) -> TriEdges] : n \in 0..MaxTri },
            n : 0..MaxTri, v12 : { NONE, 12 } ] : Len(c.trig) = 3 * c.n }

InitTri ==
  /\ \E p \in TriPatterns :
       mc = compute_intersection_points(
              [ init_all(constructor(2, 2, 2)) EXCEPT
                  !.data = PatternData(init_all(constructor(2, 2, 2)), p) ],
              1, << 0, 0 >>)
  /\ pc = "tile"
  /\ iso = 1
  /\ g = << 0, 0 >>
  /\ lut = 0
  /\ runs = 0
  /\ since = 0
  /\ filled = TRUE
  /\ before = constructor(-1, -1, -1)
  /\ call \in TriCalls

\* add_triangle( call.trig, call.n, call.v12 ) with _i = _j = _k = 0
AddTriangle ==
  /\ pc = "tile"
  /\ mc' = add_triangle(mc, call.trig, call.n, call.v12, g[1], 0, 0, 0)
  /\ pc' = "done"
  /\ before' = mc
  /\ UNCHANGED << iso, g, lut, runs, since, filled, call >>

SpecTri == InitTri /\ [][AddTriangle]_vars

\* ------------------------------------------ one cell with general values
\* The single cell of a 2x2x2 grid whose eight corner values range over
\* CubeVals (isovalue 0, so cube[p] is the sample at corner p): the face
\* test, the interior test and the whole run applied to it.
\* corner values: none within epsilon of zero; 3 * 3 - (-2) * (-2) lies
\* within epsilon of zero, and 3 - (-2) = (-2) - (-7)
CubeVals == { -7, -2, 3 }
\* the signed face ids
Faces == { f \in -6..6 : f # 0 }
\* the arguments of test_interior: the sign s, the value of _case and the
\* reference edge that the tables yield for it
InteriorArgs ==
  { a \in [ s : { -7, 7 }, case : { 4, 5, 6, 10, 13 }, edge : -1..12 ] :
      a.case \in { 4, 5, 10 } => a.edge = -1 }

NoTest == [ op |-> "none", f |-> 0, s |-> 0, case |-> 0, edge |-> 0, result |-> FALSE ]

\* test_interior with the reference edge given instead of looked up
test_interior_at(cube, s, case, edge) ==
  IF case \in { 4, 10 } THEN test_interior_diag(cube, s)
  ELSE IF case \in { 6, 7, 12, 13 } THEN test_interior_edge(cube, s, edge)
  ELSE interior_decide(s, << TRUE, TRUE, TRUE, TRUE >>, TRUE, FALSE)

InitCube ==
  /\ \E c \in [0..7 -> CubeVals] :
       mc = [ init_all(constructor(2, 2, 2)) EXCEPT
                !.data = PatternData(init_all(constructor(2, 2, 2)), c) ]
  /\ pc = "cube"
  /\ iso = 0
  /\ g = << 0, 0 >>
  /\ lut = 0
  /\ runs = 0
  /\ since = 0
  /\ filled = TRUE
  /\ before = constructor(-1, -1, -1)
  /\ call = NoTest

\* test_face( f ) on the cube of the cell
TestFace ==
  /\ pc = "cube"
  /\ \E f \in Faces :
       call' = [ NoTest EXCEPT !.op = "face", !.f = f,
                   !.result = test_face(load_cube(mc, iso, g, 0, 0, 0), f) ]
  /\ pc' = "face"
  /\ before' = mc
  /\ UNCHANGED << mc, iso, g, lut, runs, since, filled >>

\* test_interior( s ) on the cube of the cell
TestInterior ==
  /\ pc = "cube"
  /\ \E a \in InteriorArgs :
       call' = [ NoTest EXCEPT !.op = "interior", !.s = a.s, !.case = a.case, !.edge = a.edge,
                   !.result = test_interior_at(load_cube(mc, iso, g, 0, 0, 0), a.s, a.case, a.edge) ]
  /\ pc' = "interior"
  /\ before' = mc
  /\ UNCHANGED << mc, iso, g, lut, runs, since, filled >>

\* run( 0 ) on the grid, with either method and any table variant
RunCube ==
  /\ pc = "cube"
  /\ \E b \in BOOLEAN : \E l \in 0..(LutVariants - 1) :
       /\ mc' = run([ mc EXCEPT !.originalMC = b ], iso, l, g)
       /\ lut' = l
  /\ pc' = "cell"
  /\ before' = mc
  /\ runs' = 1
  /\ since' = 1
  /\ UNCHANGED << iso, g, filled, call >>

NextCube ==
  \/ TestFace
  \/ TestInterior
  \/ RunCube

SpecCube == InitCube /\ [][NextCube]_vars

\* ------------------------------------------------------------ vocabulary
IsPrefix(a, b) == Len(a) <= Len(b) /\ SubSeq(b, 1, Len(a)) = a

\* the mesh the accessors expose
Mesh(m) == << m.vertices, m.triangles, m.nverts, m.ntrigs >>

Samples(m) == m.size_x * m.size_y * m.size_z
Cells(m) == LoopCount(m.size_x - 1, m.size_y - 1, m.size_z - 1)
NCentral(m) == Cardinality({ t \in 1..Len(m.vertices) : m.vertices[t].kind = "c" })

Axes == { "x", "y", "z" }
Voxels(m) == (0..(m.size_x - 1)) \X (0..(m.size_y - 1)) \X (0..(m.size_z - 1))
Boundary(m) ==
  { v \in Voxels(m) : \/ v[1] \in { 0, m.size_x - 1 }
                      \/ v[2] \in { 0, m.size_y - 1 }
                      \/ v[3] \in { 0, m.size_z - 1 } }
Neighbour(axis, v) ==
  IF axis = "x" THEN << v[1] + 1, v[2], v[3] >>
  ELSE IF axis = "y" THEN << v[1], v[2] + 1, v[3] >>
  ELSE << v[1], v[2], v[3] + 1 >>
\* the voxel v has a forward neighbour along the axis
Forward(m, axis, v) == InGrid(m, Neighbour(axis, v)[1], Neighbour(axis, v)[2], Neighbour(axis, v)[3])

\* sample(v) - iso of the current run, and its perturbed value
Raw(v) == get_data(mc, g, v[1], v[2], v[3]) - iso
Val(v) == perturb(Raw(v))
Product(axis, v) == Val(v) * Val(Neighbour(axis, v))
Entry(m, axis, v) == EntryId(m, << axis, v[1], v[2], v[3] >>)

\* a run is between its passes / the last operation was a run, on an
\* extractor initialised by init_all
EdgePassDone == pc = "cells" /\ since >= 0
RunDone == pc = "idle" /\ since >= 1 /\ mc.size_x # -1
FirstRunDone == RunDone /\ since = 1

\* the triangles add_triangle makes of the tile trig for cell (i,j,k) of m
Translated(m, trig, n, v12, i, j, k) ==
  [ t \in 1..n |-> [ v1 |-> translate(m, trig[3 * t - 2], v12, NONE, i, j, k),
                     v2 |-> translate(m, trig[3 * t - 1], v12, NONE, i, j, k),
                     v3 |-> translate(m, trig[3 * t], v12, NONE, i, j, k) ] ]

\* ---------------------------------------------------------------- C1
\* what a single run at the last isovalue yields on a freshly initialised
\* extractor holding the same samples
FreshRun == run(init_all(mc), iso, lut, g)

C2_IndicesInRange ==
  (EdgePassDone \/ RunDone) => ~mc.oob

\* ---------------------------------------------------------------- C3
TriangleEdges(T) == { { T.v1, T.v2 }, { T.v2, T.v3 }, { T.v3, T.v1 } }
BoundaryOneSign ==
  \/ \A v \in Boundary(mc) : Raw(v) > 0
  \/ \A v \in Boundary(mc) : Raw(v) < 0

\* C3 as stated: when all boundary samples are strictly on one side of the
\* isovalue, after a run in topological mode every edge of an emitted
\* triangle occurs in exactly two emitted triangles.
C3_ClosedManifold ==
  (FirstRunDone /\ ~mc.originalMC /\ BoundaryOneSign) =>
    \A t \in 1..mc.ntrigs : \A e \in TriangleEdges(mc.triangles[t]) :
      Cardinality({ u \in 1..mc.ntrigs : e \in TriangleEdges(mc.triangles[u]) }) = 2

C5_Determinism ==
  FirstRunDone =>
    \A u \in UndefVals : Mesh(run(init_all(mc), iso, lut, u)) = Mesh(mc)

LatticeEntry(P, Q) ==
  << IF P[1] # Q[1] THEN "x" ELSE IF P[2] # Q[2] THEN "y" ELSE "z",
     IF P[1] < Q[1] THEN P[1] ELSE Q[1],
     IF P[2] < Q[2] THEN P[2] ELSE Q[2],
     IF P[3] < Q[3] THEN P[3] ELSE Q[3] >>
\* the lattice point of corner p of cell c
CornerAt(c, p) == << c[1] + CornerDx(p), c[2] + CornerDy(p), c[3] + CornerDz(p) >>
CellsOf(m) == (0..(m.size_x - 2)) \X (0..(m.size_y - 2)) \X (0..(m.size_z - 2))
SetEntries(m) == { a \in Axes \X Voxels(m) : Entry(m, a[1], a[2]) # NONE }

\* C7: after the edge pass of a run on a freshly initialised extractor the
\* entries of Ex, Ey, Ez that are not none are pairwise distinct and are
\* exactly the ids 0..nverts-1; and every cell translates each local edge
\* 0..11 to the map entry of the lattice edge joining the two corners of
\* that local edge, so the cells around an edge read one and the same entry.
C7_Interning ==
  (EdgePassDone /\ since = 0) =>
    /\ \A a, b \in SetEntries(mc) : a # b => Entry(mc, a[1], a[2]) # Entry(mc, b[1], b[2])
    /\ { Entry(mc, a[1], a[2]) : a \in SetEntries(mc) } = 0..(mc.nverts - 1)
    /\ \A c \in CellsOf(mc) : \A e \in 0..11 :
         EdgeEntry(e, c[1], c[2], c[3]) = LatticeEntry(CornerAt(c, EdgeP0(e)), CornerAt(c, EdgeP1(e)))

\* an edge pass that made vertices, one of them on the edge shared by the
\* two cells of the 3x2x2 grid (local edge 1 of cell 0, local edge 3 of cell 1)
C7_Witness ==
  /\ EdgePassDone /\ since = 0 /\ mc.size_x = 3 /\ mc.nverts >= 3
  /\ EntryId(mc, EdgeEntry(1, 0, 0, 0)) # NONE
  /\ EdgeEntry(1, 0, 0, 0) = EdgeEntry(3, 1, 0, 0)

\* ---------------------------------------------------------------- C8
\* C8 as stated: in every state reached by the constructor, init_all,
\* clean_all and run, every append was made with count <= capacity before
\* the growth check and wrote below the capacity in force after it.
C8_Capacity == mc.precount /\ ~mc.overflow

\* ---------------------------------------------------------------- C9
\* the id add_triangle reads for the tile entry e of the call
CallId(e) == IF e = 12 THEN call.v12 ELSE EntryId(before, EdgeEntry(e, 0, 0, 0))

\* C9: add_triangle(tile, n, v12) appends exactly n triangles, the t-th one
\* holding in order the translations of tile[3t], tile[3t+1], tile[3t+2]
\* (edge 12 -> v12), also when a translated id is none; ntrigs grows by n.
C9_AddTriangle ==
  pc = "done" =>
    /\ mc.ntrigs = before.ntrigs + call.n
    /\ Len(mc.triangles) = mc.ntrigs
    /\ IsPrefix(before.triangles, mc.triangles)
    /\ \A t \in 1..call.n :
         mc.triangles[before.ntrigs + t] =
           [ v1 |-> CallId(call.trig[3 * t - 2]), v2 |-> CallId(call.trig[3 * t - 1]),
             v3 |-> CallId(call.trig[3 * t]) ]

\* a call that appended two triangles, the first with an id none and the
\* second without
C9_Witness ==
  /\ pc = "done" /\ call.n = 2 /\ mc.ntrigs = 2
  /\ NONE \in { mc.triangles[1].v1, mc.triangles[1].v2, mc.triangles[1].v3 }
  /\ NONE \notin { mc.triangles[2].v1, mc.triangles[2].v2, mc.triangles[2].v3 }

\* --------------------------------------------------------------- C10
\* the single cell of a 2x2x2 grid as the last run loaded it
Cube0 == load_cube(mc, iso, g, 0, 0, 0)
Lam0 == lut_entry(Cube0)
Config0 == cases[Lam0][2]
\* the cell is of base case 7 and its three face tests return true
Case7Sub7 ==
  /\ FirstRunDone /\ ~mc.originalMC /\ Cells(mc) = 1
  /\ cases[Lam0][1] = 7
  /\ FaceBits(Cube0, lut, 7, Config0, 0, 2) = 7
Interior7 == test_interior(Cube0, SignEntry(lut, 73, Config0), 7, Config0, 7, lut, Lam0)
Tiling7_4_1 == Tiling(lut, 741, Lam0, 0, 5, FALSE)
Tiling7_4_2 == Tiling(lut, 742, Lam0, 0, 9, FALSE)

\* C10 as stated: base case 7, subconfiguration 7, interior test true:
\* process_cube emits tiling7_4_1[config], 5 triangles, no central vertex.
C10_Case7InteriorTrue ==
  (Case7Sub7 /\ Interior7) =>
    /\ mc.ntrigs = 5
    /\ mc.triangles = Translated(mc, Tiling7_4_1, 5, NONE, 0, 0, 0)
    /\ NCentral(mc) = 0

\* C10 amended: base case 7, subconfiguration 7: process_cube emits
\* tiling7_4_2[config] (9 triangles) when the interior test returns true and
\* tiling7_4_1[config] (5 triangles) when it returns false; no central
\* vertex is created in either branch.
C10_Case7Branches ==
  Case7Sub7 =>
    /\ NCentral(mc) = 0
    /\ IF Interior7
       THEN mc.ntrigs = 9 /\ mc.triangles = Translated(mc, Tiling7_4_2, 9, NONE, 0, 0, 0)
       ELSE mc.ntrigs = 5 /\ mc.triangles = Translated(mc, Tiling7_4_1, 5, NONE, 0, 0, 0)

C10_Witness == Case7Sub7 /\ Interior7 /\ mc.ntrigs = 9

\* --------------------------------------------------------------- C11
\* all samples of the grid are equal, and differ from the isovalue
ConstantField ==
  /\ Len(mc.data) = Samples(mc)
  /\ \A t \in 1..Len(mc.data) : mc.data[t] = mc.data[1]
  /\ mc.data[1] # iso

\* C11: on a grid whose samples all equal one constant c, with an isovalue
\* other than c, in both methods the edge pass creates no vertex and leaves
\* every entry of Ex, Ey, Ez none, and run ends with nverts = 0 and ntrigs = 0.
C11_ConstantField ==
  ((EdgePassDone \/ RunDone) /\ ConstantField) =>
    /\ mc.nverts = 0 /\ mc.vertices = << >>
    /\ \A axis \in Axes : \A v \in Voxels(mc) : Entry(mc, axis, v) = NONE
    /\ RunDone => (mc.ntrigs = 0 /\ mc.triangles = << >>)

\* a run in the classical method over a constant field that lies below the
\* isovalue by less than epsilon (every corner value is perturbed)
C11_Witness ==
  /\ RunDone /\ ConstantField /\ mc.originalMC
  /\ Raw(<< 0, 0, 0 >>) < 0 /\ Val(<< 0, 0, 0 >>) = EPS

\* --------------------------------------------------------------- C12
\* C12: frame of run, on an extractor initialised by init_all.  Neither pass
\* of run writes the sample grid; the cell pass writes none of Ex, Ey, Ez
\* (the id of a central vertex is stored in no map); and every vertex and
\* triangle appended before a pass is found unchanged, at its index, after
\* it, also when the pass doubled a capacity.
C12_FrameOfRun ==
  [][ (pc' # pc /\ since >= 0) =>
        /\ mc'.data = mc.data
        /\ IsPrefix(mc.vertices, mc'.vertices)
        /\ IsPrefix(mc.triangles, mc'.triangles)
        /\ pc = "cells" =>
             /\ mc'.x_verts = mc.x_verts
             /\ mc'.y_verts = mc.y_verts
             /\ mc'.z_verts = mc.z_verts ]_vars

\* a second run that found vertices and triangles, doubled both capacities
\* and made a central vertex
C12_Witness ==
  /\ RunDone /\ before.nverts > 0 /\ before.ntrigs > 0
  /\ mc.Nverts > before.Nverts /\ mc.Ntrigs > before.Ntrigs
  /\ mc.ncentral > 0

\* --------------------------------------------------------------- C13
\* the cell of the 2x2x2 grid has been run in the topological method
CellDone == pc = "cell" /\ Cells(mc) = 1 /\ ~mc.originalMC

\* C13 as stated: every division executed during run has a divisor other
\* than zero: cube[0] - cube[1|3|4] in add_x/y/z_vertex, the count of
\* contributing vertices in add_c_vertex, and in test_interior 2 * a (cases 4
\* and 10) and cube[p0] - cube[p1] (reference edge).
C13_DivisorsNonZero ==
  CellDone =>
    /\ \A t \in 1..mc.nverts : mc.vertices[t].den # 0
    /\ \A sc \in interior_calls(Cube0, lut, Lam0, cases[Lam0][1], Config0) :
         interior_divisor(Cube0, cases[Lam0][1], Config0, sc, lut, Lam0) # 0

\* --------------------------------------------------------------- C14
\* C14: after the perturbation no corner value is zero: every cube[p],
\* p in 0..7, of every cell of the cell pass, and every cube[0], cube[1],
\* cube[3], cube[4] of every voxel of the edge pass, is at least epsilon in
\* absolute value when the sign tests and the case index are computed.
C14_NoZeroCorner ==
  (EdgePassDone \/ RunDone) =>
    /\ \A c \in CellsOf(mc) : \A p \in 0..7 :
         Abs(load_cube(mc, iso, g, c[1], c[2], c[3])[p]) >= EPS
    /\ \A v \in Voxels(mc) : \A p \in { 0, 1, 3, 4 } :
         Abs(edge_cube(mc, iso, g, v[1], v[2], v[3])[p]) >= EPS

\* a run over a grid with cells in which a sample equals the isovalue
C14_Witness ==
  /\ RunDone /\ Cells(mc) >= 1
  /\ \E v \in Voxels(mc) : Raw(v) = 0

\* --------------------------------------------------------------- C15
\* C15 as stated: the perturbation changes a corner value only when the
\* sample equals the isovalue: at every lattice point with sample - iso # 0
\* the corner value the passes use is sample - iso, and so has its sign.
C15_OnlyIsoExact ==
  (EdgePassDone \/ RunDone) =>
    \A v \in Voxels(mc) :
      Raw(v) # 0 =>
        /\ edge_cube(mc, iso, g, v[1], v[2], v[3])[0] = Raw(v)
        /\ Sign(edge_cube(mc, iso, g, v[1], v[2], v[3])[0]) = Sign(Raw(v))

\* --------------------------------------------------------------- C16
\* the four corners (A, B, C, D) of face 1..6, as the contract lists them
FaceCorners ==
  << <<0, 4, 5, 1>>, <<1, 5, 6, 2>>, <<2, 6, 7, 3>>,
     <<3, 7, 4, 0>>, <<0, 3, 2, 1>>, <<4, 7, 6, 5>> >>
\* A and A * C - B * D for the face f of the last call of test_face
FaceA == Cube0[FaceCorners[Abs(call.f)][1]]
FaceDet ==
  Cube0[FaceCorners[Abs(call.f)][1]] * Cube0[FaceCorners[Abs(call.f)][3]]
    - Cube0[FaceCorners[Abs(call.f)][2]] * Cube0[FaceCorners[Abs(call.f)][4]]

\* C16: for every face id f in +-1..+-6 and all corner values, test_face(f)
\* returns f >= 0 when |A*C - B*D| < epsilon and otherwise returns true iff
\* f * A * (A*C - B*D) >= 0; it changes nothing.
C16_FaceTest ==
  pc = "face" =>
    /\ call.result = IF Abs(FaceDet) < EPS * SCALE THEN call.f >= 0
                     ELSE call.f * FaceA * FaceDet >= 0
    /\ mc = before

\* a call on a face with 0 < |A*C - B*D| < epsilon where the sign rule would
\* give the other answer
C16_Witness ==
  /\ pc = "face" /\ call.f > 0 /\ call.result
  /\ FaceDet # 0 /\ Abs(FaceDet) < EPS * SCALE /\ FaceA * FaceDet < 0

\* --------------------------------------------------------------- C17
\* the last call of test_interior was made with a base case that has no
\* interior test, or with a reference edge outside 0..11
InteriorError ==
  /\ pc = "interior"
  /\ \/ call.case \notin { 4, 6, 7, 10, 12, 13 }
     \/ call.case \in { 6, 7, 12, 13 } /\ call.edge \notin 0..11

\* C17: entered with a base case outside {4,6,7,10,12,13}, or with a case in
\* {6,7,12,13} and a reference edge outside 0..11, test_interior(s) returns
\* the value of s < 0, for s = +7 and for s = -7, and changes nothing.
C17_InteriorErrors ==
  InteriorError => (call.result = (call.s < 0) /\ mc = before)

\* the error outcome for s = -7 (true) after an invalid edge in case 13
C17_Witness ==
  InteriorError /\ call.case = 13 /\ call.edge = 12 /\ call.s = -7 /\ call.result

\* --------------------------------------------------------------- C20
\* the last call of test_interior was made for case 6, 7, 12 or 13 with a
\* reference edge in 0..11
InteriorEdge ==
  pc = "interior" /\ call.case \in { 6, 7, 12, 13 } /\ call.edge \in 0..11
\* for that call: the corners of the reference edge and of Bt, Ct, Dt, the
\* quotient t, and the outcome test = 1 + 2 [Bt >= 0] + 4 [Ct >= 0] + 8 [Dt >= 0]
RefC == interior_lookup[call.edge]
RefT == Quot(Cube0[RefC[1]], Cube0[RefC[1]] - Cube0[RefC[2]])
RefTest ==
  1 + (IF LerpGe0(Cube0[RefC[3]], Cube0[RefC[4]], RefT) THEN 2 ELSE 0)
    + (IF LerpGe0(Cube0[RefC[5]], Cube0[RefC[6]], RefT) THEN 4 ELSE 0)
    + (IF LerpGe0(Cube0[RefC[7]], Cube0[RefC[8]], RefT) THEN 8 ELSE 0)
\* -Bt * Dt < epsilon; for an infinite t (the end values of the reference
\* edge are equal) Bt and Dt are infinite, or not numbers, and the product
\* -Bt * Dt is below epsilon iff both are infinite of one sign
NegBtDtSmall ==
  IF RefT[2] # 0
  THEN 0 - Lerp(Cube0[RefC[3]], Cube0[RefC[4]], RefT) * Lerp(Cube0[RefC[7]], Cube0[RefC[8]], RefT)
         < EPS * SCALE * RefT[2] * RefT[2]
  ELSE (Cube0[RefC[4]] - Cube0[RefC[3]]) * (Cube0[RefC[8]] - Cube0[RefC[7]]) > 0

C19_PassesAgree ==
  FirstRunDone =>
    \A c \in CellsOf(mc) : \A e \in 0..11 :
      (EntryId(mc, EdgeEntry(e, c[1], c[2], c[3])) # NONE)
        <=> (Bit(lut_entry(load_cube(mc, iso, g, c[1], c[2], c[3])), EdgeP0(e))
               # Bit(lut_entry(load_cube(mc, iso, g, c[1], c[2], c[3])), EdgeP1(e)))

\* a first run over two cells that made vertices around a sample lying
\* within epsilon under the isovalue
C19_Witness ==
  /\ FirstRunDone /\ Cells(mc) = 2 /\ mc.nverts > 0
  /\ \E v \in Voxels(mc) : Raw(v) < 0 /\ Val(v) > 0

\* --------------------------------------------------------------- C18
\* the tilings of the branches 6.1.2, 7.3, 10.2, 12.2, 13.3 and 13.4
CentralTilings ==
  { "tiling6_1_2", "tiling7_3", "tiling10_2", "tiling10_2_", "tiling12_2",
    "tiling12_2_", "tiling13_3", "tiling13_3_", "tiling13_4" }
\* the branch process_cube takes for the cell, and the extractor as the
\* edge pass of the run left it
Branch0 == resolve(Cube0, lut, Lam0)
AfterEdges == compute_intersection_points(before, iso, g)

\* C18: in the topological method process_cube appends a central vertex for
\* a cell iff the cell resolves to 6.1.2, 7.3 (subconfiguration 3, 5 or 6),
\* 10.2, 12.2, 13.3 or 13.4, and then exactly one, before the triangles of
\* the cell, which hold its id for the tile entry 12; in every other branch
\* and in the classical method the cell pass leaves nverts unchanged.
C18_CentralBranches ==
  (pc = "cell" /\ Cells(mc) = 1) =>
    IF ~mc.originalMC /\ Branch0.tbl \in CentralTilings
    THEN /\ mc.nverts = AfterEdges.nverts + 1
         /\ mc.vertices[mc.nverts].kind = "c"
         /\ SubSeq(mc.vertices, 1, AfterEdges.nverts) = AfterEdges.vertices
         /\ mc.triangles = Translated(mc, Branch0.trig, Branch0.n, AfterEdges.nverts, 0, 0, 0)
         /\ Branch0.tbl = "tiling7_3" => Branch0.subconfig \in { 3, 5, 6 }
    ELSE /\ mc.nverts = AfterEdges.nverts
         /\ mc.vertices = AfterEdges.vertices

\* a cell resolved to 13.4, with its central vertex used by a triangle
C18_Witness ==
  /\ pc = "cell" /\ ~mc.originalMC /\ Branch0.tbl = "tiling13_4"
  /\ mc.nverts = 13 /\ mc.ntrigs = 12
  /\ \E t \in 1..mc.ntrigs : mc.triangles[t].v1 = 12
====
